---- MODULE Spec2Model ----
(***************************************************************************)
(* The batch annotation handler of src/app/api/generate/route.ts: POST     *)
(* and the helpers it calls (getEnvKeys, parseClientKeys, pickKey,         *)
(* ensureText).                                                            *)
(*                                                                         *)
(* A JavaScript string is a sequence of one-character strings, so that     *)
(* trim, split and join are computed as the code computes them.  The       *)
(* text of a JSON form field is a sequence of JSON lexemes (brackets,      *)
(* commas, scalars); ParseJSON parses the fragment                         *)
(*     value ::= scalar | "[" [ scalar { "," scalar } ] "]"                *)
(* and throws on everything else, as JSON.parse does.  The form field      *)
(* defaultPrompt is a string or absent; the model identifier only passes   *)
(* through to generateContent and is left out.                             *)
(***************************************************************************)
EXTENDS Integers, Sequences, FiniteSets, TLC

VARIABLES
    env,            \* process.env: GOOGLE_API_KEYS, GOOGLE_API_KEY
    form,           \* the multipart form of the request
    pc,             \* position of POST
    http,           \* the response of POST: status, error field, results field
    prompts,        \* route.ts:84   parsed prompts value
    defaultPrompt,  \* route.ts:94
    allKeys,        \* route.ts:99
    results,        \* route.ts:111
    index,          \* route.ts:118  (1-based here)
    prompt,         \* route.ts:120
    upload,         \* route.ts:127-131  key and upload response of the current image
    response,       \* route.ts:142  generation response of the current image
    disk,           \* indices of the images whose staging file exists
    calls,          \* per image: number of writeFile/upload/generate/unlink calls
    step,           \* per image: how its try block ended, and with what
    text            \* scratch result of ensureText (SpecText)

vars == <<env, form, pc, http, prompts, defaultPrompt, allKeys, results, index,
          prompt, upload, response, disk, calls, step, text>>

-----------------------------------------------------------------------------
(* Bounds *)

MaxImages == 2

-----------------------------------------------------------------------------
(* JavaScript strings *)

\* \s of the regular expression and the white space String.prototype.trim strips
WS == {" ", "\t", "\n"}

\* the separators of /[,;\s]+/
Sep == {",", ";"} \cup WS

RECURSIVE trimStart(_)
trimStart(s) ==
    IF s # <<>> /\ Head(s) \in WS THEN trimStart(Tail(s)) ELSE s

RECURSIVE trimEnd(_)
trimEnd(s) ==
    IF s # <<>> /\ s[Len(s)] \in WS THEN trimEnd(SubSeq(s, 1, Len(s) - 1)) ELSE s

trim(s) == trimEnd(trimStart(s))

\* Array.prototype.filter(Boolean) on an array of strings
RECURSIVE filterBoolean(_)
filterBoolean(a) ==
    IF a = <<>> THEN <<>>
    ELSE IF Head(a) = <<>> THEN filterBoolean(Tail(a))
         ELSE <<Head(a)>> \o filterBoolean(Tail(a))

\* Array.prototype.join
RECURSIVE join(_, _)
join(a, sep) ==
    IF a = <<>> THEN <<>>
    ELSE IF Len(a) = 1 THEN a[1]
         ELSE a[1] \o sep \o join(Tail(a), sep)

\* String.prototype.split(/[,;\s]+/): the pieces between maximal separator runs
RECURSIVE splitFrom(_, _, _)
splitFrom(s, i, cur) ==
    IF i > Len(s) THEN <<cur>>
    ELSE IF s[i] \in Sep
         THEN IF i > 1 /\ s[i - 1] \in Sep
              THEN splitFrom(s, i + 1, cur)
              ELSE <<cur>> \o splitFrom(s, i + 1, <<>>)
         ELSE splitFrom(s, i + 1, Append(cur, s[i]))

split(s) == splitFrom(s, 1, <<>>)

mapTrim(a) == [i \in 1..Len(a) |-> trim(a[i])]

-----------------------------------------------------------------------------
(* JSON *)

Tok(k, s) == [k |-> k, s |-> s]
LBR == Tok("[", <<>>)
RBR == Tok("]", <<>>)
COMMA == Tok(",", <<>>)
TNull == Tok("null", <<>>)
TNum == Tok("num", <<>>)
TObj == Tok("obj", <<>>)
TBad == Tok("bad", <<>>)
TStr(s) == Tok("str", s)

ScalarKinds == {"null", "num", "obj", "str"}

\* a parsed value: t is its type ("err" when JSON.parse throws), s the characters
\* of a string, a the elements of an array
Val(t, s, a) == [t |-> t, s |-> s, a |-> a]
Elem(tok) == [t |-> tok.k, s |-> tok.s]

ParseJSON(toks) ==
    IF Len(toks) = 1 /\ toks[1].k \in ScalarKinds
    THEN Val(toks[1].k, toks[1].s, <<>>)
    ELSE IF Len(toks) >= 2 /\ toks[1] = LBR /\ toks[Len(toks)] = RBR
         THEN LET inner == SubSeq(toks, 2, Len(toks) - 1)
              IN  IF inner = <<>> THEN Val("arr", <<>>, <<>>)
                  ELSE IF /\ Len(inner) % 2 = 1
                          /\ \A i \in 1..Len(inner) :
                                IF i % 2 = 1 THEN inner[i].k \in ScalarKinds
                                             ELSE inner[i] = COMMA
                       THEN Val("arr", <<>>,
                                [i \in 1..((Len(inner) + 1) \div 2) |->
                                    Elem(inner[2 * i - 1])])
                       ELSE Val("err", <<>>, <<>>)
         ELSE Val("err", <<>>, <<>>)

\* a form field (FormDataEntryValue | null): absent, a File, or a string; toks are
\* the lexemes of a JSON field and the characters of a plain one
Field(kind, toks) == [kind |-> kind, toks |-> toks]
Absent == Field("absent", <<>>)
FilePart == Field("file", <<>>)
StrField(toks) == Field("string", toks)

\* String(file) is "[object File]"
FileToString == <<LBR, TBad, TBad, RBR>>

-----------------------------------------------------------------------------
(* getEnvKeys, parseClientKeys *)

EnvVar(isSet, v) == [set |-> isSet, v |-> v]
Unset == EnvVar(FALSE, <<>>)

getEnvKeys(e) ==
    LET raw == join(filterBoolean(<<
                   IF e.GOOGLE_API_KEYS.set THEN e.GOOGLE_API_KEYS.v ELSE <<>>,
                   IF e.GOOGLE_API_KEY.set THEN e.GOOGLE_API_KEY.v ELSE <<>> >>),
                   <<",">>)
    IN  filterBoolean(mapTrim(split(raw)))

\* the trimmed string elements of a parsed array, "" for the others
clientKeyOf(el) == IF el.t = "str" THEN trim(el.s) ELSE <<>>

parseClientKeys(raw) ==
    IF raw.kind # "string" \/ raw.toks = <<>> THEN <<>>
    ELSE LET parsed == ParseJSON(raw.toks)
         IN  IF parsed.t # "arr" THEN <<>>
             ELSE filterBoolean([i \in 1..Len(parsed.a) |-> clientKeyOf(parsed.a[i])])

\* route.ts:99-102
combineKeys(e, raw) == getEnvKeys(e) \o parseClientKeys(raw)

-----------------------------------------------------------------------------
(* ensureText *)

\* a content part { text?: string }
Part(has, s) == [has |-> has, text |-> s]
\* a candidate { content?: { parts?: Part[] } }
Cand(hasContent, hasParts, parts) ==
    [content |-> hasContent, hasParts |-> hasParts, parts |-> parts]
\* an optional candidates array
Cands(has, list) == [has |-> has, list |-> list]
NoCands == Cands(FALSE, <<>>)
\* the optional envelope response.response
Envelope(has, cands) == [has |-> has, cands |-> cands]
NoEnvelope == Envelope(FALSE, NoCands)

\* GeminiResponse | undefined; textKind is typeof response.text
Resp(present, textKind, s, inner, outer) ==
    [present |-> present, textKind |-> textKind, text |-> s,
     inner |-> inner, outer |-> outer]
Undefined == Resp(FALSE, "undefined", <<>>, NoEnvelope, NoCands)

\* candidates?.[0]?.content?.parts : def is FALSE when the chain gives undefined
firstParts(c) ==
    IF c.has /\ c.list # <<>> /\ c.list[1].content /\ c.list[1].hasParts
    THEN [def |-> TRUE, v |-> c.list[1].parts]
    ELSE [def |-> FALSE, v |-> <<>>]

partTexts(parts) ==
    [i \in 1..Len(parts) |-> IF parts[i].has THEN parts[i].text ELSE <<>>]

\* ensureText without the .filter(Boolean) of route.ts:67
ensureTextNoFilter(r) ==
    IF ~r.present THEN <<>>
    ELSE IF r.textKind = "function" THEN r.text
    ELSE IF r.textKind = "string" THEN r.text
    ELSE LET p1 == IF r.inner.has THEN firstParts(r.inner.cands)
                   ELSE [def |-> FALSE, v |-> <<>>]
             p2 == firstParts(r.outer)
             parts == IF p1.def THEN p1.v ELSE IF p2.def THEN p2.v ELSE <<>>
         IN  join(partTexts(parts), <<"\n">>)

ensureText(r) ==
    IF ~r.present THEN <<>>
    ELSE IF r.textKind = "function" THEN r.text
    ELSE IF r.textKind = "string" THEN r.text
    ELSE LET p1 == IF r.inner.has THEN firstParts(r.inner.cands)
                   ELSE [def |-> FALSE, v |-> <<>>]
             p2 == firstParts(r.outer)
             parts == IF p1.def THEN p1.v ELSE IF p2.def THEN p2.v ELSE <<>>
         IN  join(filterBoolean(partTexts(parts)), <<"\n">>)

-----------------------------------------------------------------------------
(* The pieces of POST *)

\* a thrown value; its message is read only when it is an Error
Thrown(isError, message) == [isError |-> isError, message |-> message]

MsgNoImages == "at least one image must be uploaded"
MsgBadPrompts == "malformed prompt data"
MsgNoKeys == "no API key found"
MsgUploadFailed == "unable to upload file to Gemini"
MsgFallback == "an error occurred"
DefaultPromptLiteral == <<"describe-this-image">>

\* route.ts:161
errorMessage(e) == IF e.isError THEN e.message ELSE MsgFallback

\* route.ts:73-75
onlyFiles(images) == SelectSeq(images, LAMBDA x : x.isFile)

\* route.ts:86  JSON.parse((formData.get("prompts") as string) ?? "[]")
parsePrompts(f) ==
    IF f.kind = "absent" THEN ParseJSON(<<LBR, RBR>>)
    ELSE IF f.kind = "file" THEN ParseJSON(FileToString)
    ELSE ParseJSON(f.toks)

\* route.ts:94-96
resolveDefault(f) ==
    IF f.kind = "string" /\ trim(f.toks) # <<>> THEN trim(f.toks)
    ELSE DefaultPromptLiteral

\* route.ts:120  prompts[index]?.trim() || defaultPrompt ; crash is the TypeError
\* of indexing null or of calling a missing trim
promptAt(p, i, dflt) ==
    LET ok(s) == [crash |-> FALSE, v |-> IF trim(s) # <<>> THEN trim(s) ELSE dflt]
        boom == [crash |-> TRUE, v |-> <<>>]
    IN  CASE p.t = "null" -> boom
          [] p.t = "str"  -> IF i <= Len(p.s) THEN ok(<<p.s[i]>>) ELSE ok(<<>>)
          [] p.t = "arr"  ->
                IF i > Len(p.a) THEN ok(<<>>)
                ELSE IF p.a[i].t = "str" THEN ok(p.a[i].s)
                ELSE IF p.a[i].t = "null" THEN ok(<<>>)
                ELSE boom
          [] OTHER -> ok(<<>>)

\* optional string field of the upload response
Opt(has, v) == [has |-> has, v |-> v]
None == Opt(FALSE, "")
falsy(o) == ~o.has \/ o.v = ""

\* UploadResponse
Up(hasFile, furi, fmime, uri, mime) ==
    [hasFile |-> hasFile, file |-> [uri |-> furi, mimeType |-> fmime],
     uri |-> uri, mimeType |-> mime]

\* route.ts:133-136
fileRefOf(u, fileType) ==
    IF u.hasFile THEN [uri |-> Opt(TRUE, u.file.uri), mimeType |-> Opt(TRUE, u.file.mimeType)]
    ELSE [uri |-> u.uri,
          mimeType |-> IF u.mimeType.has THEN u.mimeType ELSE Opt(TRUE, fileType)]

\* the test of route.ts:138 without its media type half
refUnusableUriOnly(ref) == falsy(ref.uri)

\* route.ts:138
refUnusable(ref) == falsy(ref.uri) \/ falsy(ref.mimeType)

ResultEntryText(file, p, s) ==
    [filename |-> file.name, prompt |-> p, hasText |-> TRUE, text |-> s,
     hasError |-> FALSE, error |-> ""]
\* an error entry that also carries a text field
ResultEntryErrorWithText(file, p, msg) ==
    [filename |-> file.name, prompt |-> p, hasText |-> TRUE, text |-> <<>>,
     hasError |-> TRUE, error |-> msg]

ResultEntryError(file, p, msg) ==
    [filename |-> file.name, prompt |-> p, hasText |-> FALSE, text |-> <<>>,
     hasError |-> TRUE, error |-> msg]

-----------------------------------------------------------------------------
(* The requests and the environment *)

\* an entry of formData.getAll("images"); a file's name is its number
ImageFile(i) == [isFile |-> TRUE, name |-> i,
                 type |-> IF i % 2 = 1 THEN "image/png" ELSE ""]
NotAFile == [isFile |-> FALSE, name |-> 0, type |-> ""]

ImageLists ==
    {[i \in 1..n |-> ImageFile(i)] : n \in 0..MaxImages} \cup {<<NotAFile>>}

PromptFields ==
    { Absent,
      FilePart,
      StrField(<<TBad>>),
      StrField(<<LBR, TStr(<<"p">>), COMMA>>),
      StrField(<<TNull>>),
      StrField(<<LBR, TStr(<<" ", "p">>), COMMA, TStr(<<" ">>), RBR>>),
      StrField(<<LBR, TStr(<<"p">>), COMMA, TNum, RBR>>) }

DefaultPromptFields == { Absent, StrField(<<" ", "d", " ">>) }

ApiKeysFields ==
    { Absent,
      StrField(<<LBR, TStr(<<"a">>), COMMA, TStr(<<" ">>), COMMA, TNum, COMMA,
                 TStr(<<" ", "b">>), RBR>>) }

Envs ==
    { [GOOGLE_API_KEYS |-> Unset, GOOGLE_API_KEY |-> Unset],
      [GOOGLE_API_KEYS |-> EnvVar(TRUE, <<" ", "a", ",", ";", "b">>),
       GOOGLE_API_KEY |-> EnvVar(TRUE, <<>>)],
      [GOOGLE_API_KEYS |-> EnvVar(TRUE, <<"a">>),
       GOOGLE_API_KEY |-> EnvVar(TRUE, <<"a", "\n">>)] }

\* what a rejected promise or a throw carries
ThrownValues == { Thrown(TRUE, "boom"), Thrown(FALSE, "") }

\* what ai.files.upload resolves to
UploadResponses ==
    { Up(TRUE, "u", "image/png", None, None),
      Up(TRUE, "", "image/png", None, None),
      Up(TRUE, "u", "", None, None),
      Up(FALSE, "", "", Opt(TRUE, "u"), Opt(TRUE, "image/png")),
      Up(FALSE, "", "", Opt(TRUE, "u"), None),
      Up(FALSE, "", "", Opt(TRUE, "u"), Opt(TRUE, "")),
      Up(FALSE, "", "", None, Opt(TRUE, "image/png")) }

PartsOf(list) == Cands(TRUE, <<Cand(TRUE, TRUE, list)>>)

\* what ai.models.generateContent resolves to
GenerateResponses ==
    { Undefined,
      Resp(TRUE, "string", <<"t">>, NoEnvelope, NoCands),
      Resp(TRUE, "undefined", <<>>, NoEnvelope,
           PartsOf(<<Part(TRUE, <<"H">>), Part(TRUE, <<>>), Part(TRUE, <<"W">>)>>)) }

-----------------------------------------------------------------------------
(* State *)

NoHttp == [status |-> 0, hasError |-> FALSE, error |-> "",
           hasResults |-> FALSE, results |-> <<>>]
Http400(msg) == [status |-> 400, hasError |-> TRUE, error |-> msg,
                 hasResults |-> FALSE, results |-> <<>>]
Http200(res) == [status |-> 200, hasError |-> FALSE, error |-> "",
                 hasResults |-> TRUE, results |-> res]

NoUpload == [state |-> "none", key |-> <<>>, r |-> Up(FALSE, "", "", None, None)]
NoResponse == [state |-> "none", r |-> Undefined]
NoCalls == [write |-> 0, upload |-> 0, generate |-> 0, unlink |-> 0]
NoText == [done |-> FALSE, v |-> <<>>]
Step(kind, e, r) == [kind |-> kind, e |-> e, r |-> r]
NoStep == Step("none", Thrown(FALSE, ""), Undefined)

files == onlyFiles(form.images)

Init ==
    /\ env \in Envs
    /\ form \in [images : ImageLists, prompts : PromptFields,
                 defaultPrompt : DefaultPromptFields, apiKeys : ApiKeysFields]
    /\ pc = "start"
    /\ http = NoHttp
    /\ prompts = Val("arr", <<>>, <<>>)
    /\ defaultPrompt = <<>>
    /\ allKeys = <<>>
    /\ results = <<>>
    /\ index = 1
    /\ prompt = <<>>
    /\ upload = NoUpload
    /\ response = NoResponse
    /\ disk = {}
    /\ calls = [i \in 1..Len(onlyFiles(form.images)) |-> NoCalls]
    /\ step = [i \in 1..Len(onlyFiles(form.images)) |-> NoStep]
    /\ text = NoText

loopVars == <<results, index, prompt, upload, response, disk, calls, step>>

-----------------------------------------------------------------------------
(* POST *)

\* Validate without the test of route.ts:104-109
ValidateNoKeyCheck ==
    /\ pc = "start"
    /\ UNCHANGED <<env, form, loopVars, text>>
    /\ IF Len(files) = 0
       THEN /\ pc' = "done"
            /\ http' = Http400(MsgNoImages)
            /\ UNCHANGED <<prompts, defaultPrompt, allKeys>>
       ELSE IF parsePrompts(form.prompts).t = "err"
       THEN /\ pc' = "done"
            /\ http' = Http400(MsgBadPrompts)
            /\ UNCHANGED <<prompts, defaultPrompt, allKeys>>
       ELSE /\ prompts' = parsePrompts(form.prompts)
            /\ defaultPrompt' = resolveDefault(form.defaultPrompt)
            /\ allKeys' = combineKeys(env, form.apiKeys)
            /\ pc' = "loop" /\ http' = NoHttp

\* route.ts:72-116  everything up to the loop
Validate ==
    /\ pc = "start"
    /\ UNCHANGED <<env, form, loopVars, text>>
    /\ IF Len(files) = 0
       THEN /\ pc' = "done"
            /\ http' = Http400(MsgNoImages)
            /\ UNCHANGED <<prompts, defaultPrompt, allKeys>>
       ELSE IF parsePrompts(form.prompts).t = "err"
       THEN /\ pc' = "done"
            /\ http' = Http400(MsgBadPrompts)
            /\ UNCHANGED <<prompts, defaultPrompt, allKeys>>
       ELSE /\ prompts' = parsePrompts(form.prompts)
            /\ defaultPrompt' = resolveDefault(form.defaultPrompt)
            /\ allKeys' = combineKeys(env, form.apiKeys)
            /\ IF Len(allKeys') = 0
               THEN pc' = "done" /\ http' = Http400(MsgNoKeys)
               ELSE pc' = "loop" /\ http' = NoHttp

\* route.ts:118-121  loop test and the prompt of the image; the TypeError of
\* line 120 is thrown outside the try block and leaves POST
BeginImage ==
    /\ pc = "loop"
    /\ index <= Len(files)
    /\ LET p == promptAt(prompts, index, defaultPrompt)
       IN  IF p.crash
           THEN pc' = "threw" /\ UNCHANGED prompt
           ELSE pc' = "stage" /\ prompt' = p.v
    /\ UNCHANGED <<env, form, http, prompts, defaultPrompt, allKeys, results, index,
                   upload, response, disk, calls, step, text>>

bump(c, i, f) == [c EXCEPT ![i][f] = @ + 1]

\* route.ts:157-162
pushError(e) == Append(results, ResultEntryError(files[index], prompt, errorMessage(e)))

\* route.ts:124-125  a failed write may leave the file behind
WriteFile ==
    /\ pc = "stage"
    /\ calls' = bump(calls, index, "write")
    /\ \/ /\ disk' = disk \cup {index}
          /\ pc' = "upload"
          /\ UNCHANGED <<results, step>>
       \/ \E e \in ThrownValues :
             /\ disk' \in {disk, disk \cup {index}}
             /\ results' = pushError(e)
             /\ step' = [step EXCEPT ![index] = Step("stageFailed", e, Undefined)]
             /\ pc' = "finally"
    /\ UNCHANGED <<env, form, http, prompts, defaultPrompt, allKeys, index, prompt,
                   upload, response, text>>

\* route.ts:54-55
pickKey(keys) == {keys[k] : k \in 1..Len(keys)}

\* route.ts:127-140
Upload ==
    /\ pc = "upload"
    /\ calls' = bump(calls, index, "upload")
    /\ \E key \in pickKey(allKeys) :
          /\ \/ \E e \in ThrownValues :
                   /\ upload' = [NoUpload EXCEPT !.state = "threw", !.key = key]
                   /\ results' = pushError(e)
                   /\ step' = [step EXCEPT ![index] = Step("uploadThrew", e, Undefined)]
                   /\ pc' = "finally"
             \/ \E u \in UploadResponses :
                   /\ upload' = [state |-> "resp", key |-> key, r |-> u]
                   /\ IF refUnusable(fileRefOf(u, files[index].type))
                      THEN /\ results' = pushError(Thrown(TRUE, MsgUploadFailed))
                           /\ step' = [step EXCEPT ![index] =
                                          Step("uploadBad", Thrown(TRUE, MsgUploadFailed),
                                               Undefined)]
                           /\ pc' = "finally"
                      ELSE /\ pc' = "generate"
                           /\ UNCHANGED <<results, step>>
    /\ UNCHANGED <<env, form, http, prompts, defaultPrompt, allKeys, index, prompt,
                   response, disk, text>>

\* Generate with one more attempt after a first failure
GenerateRetry ==
    /\ pc = "generate"
    /\ calls' = bump(calls, index, "generate")
    /\ \/ /\ calls[index].generate = 0
          /\ pc' = "generate"
          /\ UNCHANGED <<response, results, step>>
       \/ \E e \in ThrownValues :
             /\ response' = [NoResponse EXCEPT !.state = "threw"]
             /\ results' = pushError(e)
             /\ step' = [step EXCEPT ![index] = Step("generateThrew", e, Undefined)]
             /\ pc' = "finally"
       \/ \E r \in GenerateResponses :
             /\ response' = [state |-> "resp", r |-> r]
             /\ results' = Append(results,
                                  ResultEntryText(files[index], prompt, ensureText(r)))
             /\ step' = [step EXCEPT ![index] = Step("ok", Thrown(FALSE, ""), r)]
             /\ pc' = "finally"
    /\ UNCHANGED <<env, form, http, prompts, defaultPrompt, allKeys, index, prompt,
                   upload, disk, text>>

\* route.ts:142-156
Generate ==
    /\ pc = "generate"
    /\ calls' = bump(calls, index, "generate")
    /\ \/ \E e \in ThrownValues :
             /\ response' = [NoResponse EXCEPT !.state = "threw"]
             /\ results' = pushError(e)
             /\ step' = [step EXCEPT ![index] = Step("generateThrew", e, Undefined)]
       \/ \E r \in GenerateResponses :
             /\ response' = [state |-> "resp", r |-> r]
             /\ results' = Append(results,
                                  ResultEntryText(files[index], prompt, ensureText(r)))
             /\ step' = [step EXCEPT ![index] = Step("ok", Thrown(FALSE, ""), r)]
    /\ pc' = "finally"
    /\ UNCHANGED <<env, form, http, prompts, defaultPrompt, allKeys, index, prompt,
                   upload, disk, text>>

\* Unlink where a failed image ends the loop
UnlinkAbortOnFailure ==
    /\ pc = "finally"
    /\ calls' = bump(calls, index, "unlink")
    /\ \/ disk' = disk \ {index}
       \/ index \in disk /\ disk' = disk
    /\ index' = IF step[index].kind = "ok" THEN index + 1 ELSE Len(files) + 1
    /\ upload' = NoUpload
    /\ response' = NoResponse
    /\ pc' = "loop"
    /\ UNCHANGED <<env, form, http, prompts, defaultPrompt, allKeys, results, prompt,
                   step, text>>

\* the removal as the last statement of the try block instead of a finally
UnlinkOnlyOnSuccess ==
    /\ pc = "finally"
    /\ IF step[index].kind = "ok"
       THEN /\ calls' = bump(calls, index, "unlink")
            /\ \/ disk' = disk \ {index}
               \/ index \in disk /\ disk' = disk
       ELSE UNCHANGED <<calls, disk>>
    /\ index' = index + 1
    /\ upload' = NoUpload
    /\ response' = NoResponse
    /\ pc' = "loop"
    /\ UNCHANGED <<env, form, http, prompts, defaultPrompt, allKeys, results, prompt,
                   step, text>>

\* route.ts:163-166  unlink, its failure swallowed; then the next iteration
Unlink ==
    /\ pc = "finally"
    /\ calls' = bump(calls, index, "unlink")
    /\ \/ disk' = disk \ {index}
       \/ index \in disk /\ disk' = disk
    /\ index' = index + 1
    /\ upload' = NoUpload
    /\ response' = NoResponse
    /\ pc' = "loop"
    /\ UNCHANGED <<env, form, http, prompts, defaultPrompt, allKeys, results, prompt,
                   step, text>>

\* route.ts:168
Respond ==
    /\ pc = "loop"
    /\ index > Len(files)
    /\ http' = Http200(results)
    /\ pc' = "done"
    /\ UNCHANGED <<env, form, prompts, defaultPrompt, allKeys, loopVars, text>>

Next ==
    \/ Validate
    \/ BeginImage
    \/ WriteFile
    \/ Upload
    \/ Generate
    \/ Unlink
    \/ Respond

Spec == Init /\ [][Next]_vars

-----------------------------------------------------------------------------
(* ensureText on its own: every shape of GeminiResponse | undefined *)

Hello == <<"H", "e", "l", "l", "o">>
World == <<"W", "o", "r", "l", "d">>

CandLists ==
    { NoCands,
      Cands(TRUE, <<>>),
      Cands(TRUE, <<Cand(FALSE, FALSE, <<>>)>>),
      Cands(TRUE, <<Cand(TRUE, FALSE, <<>>)>>),
      PartsOf(<<>>),
      PartsOf(<<Part(TRUE, <<>>), Part(FALSE, <<>>)>>),
      PartsOf(<<Part(FALSE, <<>>), Part(TRUE, <<"H", "i">>)>>),
      PartsOf(<<Part(TRUE, Hello), Part(TRUE, <<>>), Part(TRUE, World)>>),
      Cands(TRUE, <<Cand(TRUE, TRUE, <<>>), Cand(TRUE, TRUE, <<Part(TRUE, <<"X">>)>>)>>) }

Envelopes == {NoEnvelope} \cup {Envelope(TRUE, c) : c \in CandLists}

TextValues ==
    { <<"undefined", <<>> >>, <<"string", <<>> >>, <<"string", <<"H", "i">> >>,
      <<"function", <<>> >>, <<"function", <<"Y", "o", "\n", "!">> >> }

TextResponses ==
    {Undefined} \cup
    {Resp(TRUE, t[1], t[2], i, o) : t \in TextValues, i \in Envelopes, o \in CandLists}

InitText ==
    /\ env = [GOOGLE_API_KEYS |-> Unset, GOOGLE_API_KEY |-> Unset]
    /\ form = [images |-> <<>>, prompts |-> Absent, defaultPrompt |-> Absent,
               apiKeys |-> Absent]
    /\ pc = "ensureText"
    /\ http = NoHttp
    /\ prompts = Val("arr", <<>>, <<>>)
    /\ defaultPrompt = <<>>
    /\ allKeys = <<>>
    /\ results = <<>>
    /\ index = 1
    /\ prompt = <<>>
    /\ upload = NoUpload
    /\ response \in {[state |-> "resp", r |-> r] : r \in TextResponses}
    /\ disk = {}
    /\ calls = <<>>
    /\ step = <<>>
    /\ text = NoText

\* route.ts:155  the call ensureText(response)
ExtractText ==
    /\ pc = "ensureText"
    /\ ~text.done
    /\ text' = [done |-> TRUE, v |-> ensureText(response.r)]
    /\ UNCHANGED <<env, form, pc, http, prompts, defaultPrompt, allKeys, loopVars>>

NextText == ExtractText

SpecText == InitText /\ [][NextText]_vars

-----------------------------------------------------------------------------
(* Properties of POST *)

N == Len(files)

noCallsAtAll == \A i \in 1..N : calls[i] = NoCalls

\* the request passes the three tests of route.ts:77, 85-92 and 104
Validated ==
    /\ N >= 1
    /\ parsePrompts(form.prompts).t # "err"
    /\ getEnvKeys(env) \o parseClientKeys(form.apiKeys) # <<>>

\* POST has returned or thrown
Ended == pc \in {"done", "threw"}

\* the effective prompt of image j, from the request alone
ownPrompt(j) ==
    promptAt(parsePrompts(form.prompts), j, resolveDefault(form.defaultPrompt)).v

\* the entry of image j, from its file, its prompt and the outcome of its own calls
ownEntry(j) ==
    IF step[j].kind = "ok"
    THEN [filename |-> files[j].name, prompt |-> ownPrompt(j), hasText |-> TRUE,
          text |-> ensureText(step[j].r), hasError |-> FALSE, error |-> ""]
    ELSE [filename |-> files[j].name, prompt |-> ownPrompt(j), hasText |-> FALSE,
          text |-> <<>>, hasError |-> TRUE,
          error |-> IF step[j].e.isError THEN step[j].e.message ELSE MsgFallback]

\* the number of images whose try block has ended
entriesDue == (index - 1) + (IF pc = "finally" THEN 1 ELSE 0)

FailedKinds == {"stageFailed", "uploadThrew", "uploadBad", "generateThrew"}

\* C1: every request that passes validation ends with HTTP 200 and one entry per
\* image, entry k carrying the filename of image k, whatever decodable value the
\* prompts field holds.
C1_AlwaysBatchResult ==
    (Validated /\ Ended) =>
        /\ pc = "done"
        /\ http.status = 200
        /\ http.hasResults
        /\ Len(http.results) = N
        /\ \A k \in 1..N : http.results[k].filename = files[k].name

\* C2: the entry of every image is decided by its own file, prompt and calls alone,
\* whatever happened to the other images; a failed image gets its entry and the
\* loop goes on to the next image; a returned batch holds an entry for every image.
C2_Isolation ==
    /\ Len(results) = entriesDue
    /\ \A j \in 1..Len(results) : results[j] = ownEntry(j)
    /\ (pc = "done" /\ http.status = 200) => (http.results = results /\ Len(results) = N)

\* C2 witness: the upload of image 1 failed and image 2 still got its text.
C2_Witness ==
    /\ pc = "done"
    /\ N = 2
    /\ http.status = 200
    /\ step[1].kind \in {"uploadThrew", "uploadBad"}
    /\ step[2].kind = "ok"
    /\ http.results[1].hasError
    /\ http.results[2].hasText

isStringArray(v) == v.t = "arr" /\ \A i \in 1..Len(v.a) : v.a[i].t = "str"

\* C4: a prompts field that is present and is not a decodable array of strings is
\* answered with HTTP 400 (malformed prompt list), with no results and no image
\* processed.  Stated for the requests with an image and a key, where no other
\* rejection applies.
C4_MalformedPromptsRejected ==
    (/\ pc # "start"
     /\ N >= 1
     /\ getEnvKeys(env) \o parseClientKeys(form.apiKeys) # <<>>
     /\ form.prompts.kind # "absent"
     /\ ~isStringArray(parsePrompts(form.prompts))) =>
        /\ pc = "done"
        /\ http = Http400(MsgBadPrompts)
        /\ results = <<>>
        /\ noCallsAtAll

\* the files whose removal was attempted and failed
leftBehind == {i \in disk : calls[i].unlink = 1}

\* C5 as stated: one removal per image, after its steps and before the next
\* staging; at most one staging file at any moment; none when the response is
\* returned if the removals succeeded.
C5_AtMostOneStagingFile ==
    /\ \A i \in 1..N : calls[i].unlink = (IF i < index THEN 1 ELSE 0)
    /\ Cardinality(disk) <= 1
    /\ (pc = "done" /\ leftBehind = {}) => disk = {}

\* C5 amended: the removal of an image's staging file is attempted exactly once,
\* after its try block has ended (also when staging failed) and before the next
\* image is staged; every staging file other than the current image's is one
\* whose removal failed, so at most one file exists while removals succeed and
\* none exists at the response; a failed removal changes no entry and does not
\* stop the loop.
C5_Cleanup ==
    /\ \A i \in 1..N : calls[i].unlink = (IF i < index THEN 1 ELSE 0)
    /\ \A i \in 1..N : calls[i].unlink = 1 => step[i].kind # "none"
    /\ \A i \in 1..N : calls[i].write > 0 => \A j \in 1..(i - 1) : calls[j].unlink = 1
    /\ \A i \in disk : i = index \/ i \in leftBehind
    /\ Cardinality(disk) <= 1 + Cardinality(leftBehind)
    /\ pc \in {"loop", "done", "threw"} => disk = leftBehind
    /\ Len(results) = entriesDue
    /\ (pc = "done" /\ http.status = 200) => Len(http.results) = N

\* C5 witness: staging of image 1 failed and its removal was still attempted; the
\* removal failed, the file stayed, and image 2 was processed to a text entry.
C5_Witness ==
    /\ pc = "done"
    /\ N = 2
    /\ step[1].kind = "stageFailed"
    /\ calls[1].unlink = 1
    /\ 1 \in disk
    /\ http.status = 200
    /\ http.results[2].hasText

RECURSIVE noDuplicates(_)
noDuplicates(a) ==
    \/ a = <<>>
    \/ /\ \A k \in 2..Len(a) : a[k] # a[1]
       /\ noDuplicates(Tail(a))

asSet(a) == {a[k] : k \in 1..Len(a)}

\* C6: the pool pickKey selects from is the deduplicated union of the configured
\* and the supplied tokens, with no blank token, and every key handed to the
\* client is one of the pool.
C6_PoolDeduplicated ==
    pc \in {"loop", "stage", "upload", "generate", "finally"} =>
        /\ asSet(allKeys) = asSet(getEnvKeys(env)) \cup asSet(parseClientKeys(form.apiKeys))
        /\ \A k \in 1..Len(allKeys) : allKeys[k] # <<>>
        /\ noDuplicates(allKeys)
        /\ upload.state # "none" => upload.key \in asSet(allKeys)

\* the upload response itself lacks a usable URI or a media type
lacksUriOrType(u) ==
    IF u.hasFile THEN u.file.uri = "" \/ u.file.mimeType = ""
    ELSE falsy(u.uri) \/ falsy(u.mimeType)

\* the same, the media type of the uploaded file standing in for an absent
\* top-level mimeType
lacksAfterFallback(u, fileType) ==
    IF u.hasFile THEN u.file.uri = "" \/ u.file.mimeType = ""
    ELSE \/ falsy(u.uri)
         \/ (u.mimeType.has /\ u.mimeType.v = "")
         \/ (~u.mimeType.has /\ fileType = "")

uploadFailedEntry ==
    /\ pc = "finally"
    /\ Len(results) = index
    /\ results[index].hasError
    /\ results[index].error = MsgUploadFailed
    /\ ~results[index].hasText
    /\ calls[index].generate = 0

\* C7 as stated: an upload response that lacks a usable URI or a media type fails
\* the image with the upload failure message and no generation call, whatever the
\* media type of the uploaded file.
C7_LackingResponseFails ==
    (upload.state = "resp" /\ lacksUriOrType(upload.r)) => uploadFailedEntry

\* C7 amended: the image fails with the upload failure message and no generation
\* call when the response lacks a usable URI, or carries an empty media type, or
\* carries no top-level media type and the uploaded file's own type is empty;
\* otherwise the generation call is made.
C7_UploadFailed ==
    upload.state = "resp" =>
        IF lacksAfterFallback(upload.r, files[index].type)
        THEN uploadFailedEntry
        ELSE pc = "generate" \/ (pc = "finally" /\ calls[index].generate = 1)

\* C7 witness: a top-level response without mimeType for a file without type.
C7_Witness ==
    /\ pc = "finally"
    /\ upload.state = "resp"
    /\ ~upload.r.hasFile
    /\ ~upload.r.mimeType.has
    /\ ~falsy(upload.r.uri)
    /\ files[index].type = ""
    /\ results[index].error = MsgUploadFailed

\* C8: per image the write, the upload and the generation are each made at most
\* once, exactly once where the step before succeeded, never again after a
\* failure; the upload comes before the generation; and no call of an image is
\* made before the try block of every earlier image has ended or after its own.
C8_OnceInOrder ==
    \A i \in 1..N :
        /\ calls[i].write <= 1 /\ calls[i].upload <= 1 /\ calls[i].generate <= 1
        /\ calls[i].generate = 1 => calls[i].upload = 1
        /\ calls[i].upload = 1 => calls[i].write = 1
        /\ i > index => calls[i] = NoCalls
        /\ calls[i] # NoCalls => \A j \in 1..(i - 1) : step[j].kind # "none"
        /\ (i = index /\ pc = "upload") => (calls[i].upload = 0 /\ calls[i].generate = 0)
        /\ (i = index /\ pc = "generate") => (calls[i].upload = 1 /\ calls[i].generate = 0)
        /\ step[i].kind = "stageFailed" =>
              (calls[i].write = 1 /\ calls[i].upload = 0 /\ calls[i].generate = 0)
        /\ step[i].kind \in {"uploadThrew", "uploadBad"} =>
              (calls[i].upload = 1 /\ calls[i].generate = 0)
        /\ step[i].kind \in {"generateThrew", "ok"} =>
              (calls[i].upload = 1 /\ calls[i].generate = 1)

\* C8 witness: the upload of image 1 and the generation of image 2 failed, each
\* after one attempt.
C8_Witness ==
    /\ pc = "done"
    /\ N = 2
    /\ step[1].kind = "uploadThrew"
    /\ calls[1].upload = 1
    /\ step[2].kind = "generateThrew"
    /\ calls[2].upload = 1
    /\ calls[2].generate = 1

\* C10: every entry has exactly one of text and error: text (possibly empty) when
\* staging, upload, generation and extraction succeeded, error when one failed;
\* one entry per image.
C10_TextXorError ==
    /\ \A j \in 1..Len(results) :
          /\ results[j].hasText # results[j].hasError
          /\ results[j].hasText <=> step[j].kind = "ok"
          /\ results[j].hasError <=> step[j].kind \in FailedKinds
    /\ Len(results) = Cardinality({i \in 1..N : step[i].kind # "none"})
    /\ (pc = "done" /\ http.status = 200) => Len(http.results) = N

\* C10 witness: a batch with an empty text entry and an error entry.
C10_Witness ==
    /\ pc = "done"
    /\ N = 2
    /\ http.status = 200
    /\ http.results[1].hasText /\ http.results[1].text = <<>>
    /\ ~http.results[1].hasError
    /\ http.results[2].hasError /\ ~http.results[2].hasText

-----------------------------------------------------------------------------
(* Properties of ensureText *)

RECURSIVE candidateTexts(_)
candidateTexts(list) ==
    IF list = <<>> THEN <<>>
    ELSE (IF list[1].content /\ list[1].hasParts THEN partTexts(list[1].parts) ELSE <<>>)
         \o candidateTexts(Tail(list))

\* every text fragment of the response: its text value and the parts of every
\* candidate under both envelopes
allFragments(r) ==
    IF ~r.present THEN <<>>
    ELSE (IF r.textKind # "undefined" THEN <<r.text>> ELSE <<>>)
         \o (IF r.inner.has /\ r.inner.cands.has
             THEN candidateTexts(r.inner.cands.list) ELSE <<>>)
         \o (IF r.outer.has THEN candidateTexts(r.outer.list) ELSE <<>>)

hasFirstParts(c) ==
    c.has /\ Len(c.list) >= 1 /\ c.list[1].content /\ c.list[1].hasParts

\* the fragments of the first source present: the text accessor or value, else
\* the parts of the first candidate under response.response, else those of the
\* first candidate at the top level
selectedFragments(r) ==
    IF ~r.present THEN <<>>
    ELSE IF r.textKind # "undefined" THEN <<r.text>>
    ELSE IF r.inner.has /\ hasFirstParts(r.inner.cands)
         THEN partTexts(r.inner.cands.list[1].parts)
    ELSE IF hasFirstParts(r.outer) THEN partTexts(r.outer.list[1].parts)
    ELSE <<>>

nonEmpty(frags) == SelectSeq(frags, LAMBDA f : Len(f) > 0)

RECURSIVE joinLines(_)
joinLines(frags) ==
    IF Len(frags) = 0 THEN <<>>
    ELSE IF Len(frags) = 1 THEN frags[1]
    ELSE joinLines(SubSeq(frags, 1, Len(frags) - 1)) \o <<"\n">> \o frags[Len(frags)]

\* C9 as stated: ensureText returns the newline-joined non-empty text fragments
\* found in the response, and the empty string exactly when the response holds no
\* text.
C9_AllFragmentsJoined ==
    text.done =>
        /\ text.v = joinLines(nonEmpty(allFragments(response.r)))
        /\ text.v = <<>> <=> nonEmpty(allFragments(response.r)) = <<>>

\* C9 amended: ensureText returns the newline-joined non-empty fragments of the
\* first source present (callable text, text value, parts of the first candidate
\* under response.response, parts of the first candidate at the top level), and
\* the empty string exactly when that source holds no non-empty text, a missing
\* response included.
C9_SelectedFragmentsJoined ==
    text.done =>
        /\ text.v = joinLines(nonEmpty(selectedFragments(response.r)))
        /\ text.v = <<>> <=> nonEmpty(selectedFragments(response.r)) = <<>>

\* C9 witness: the fragments "Hello", "", "World" give "Hello\nWorld".
C9_Witness ==
    /\ text.done
    /\ response.r = Resp(TRUE, "undefined", <<>>, NoEnvelope,
                         PartsOf(<<Part(TRUE, Hello), Part(TRUE, <<>>), Part(TRUE, World)>>))
    /\ text.v = Hello \o <<"\n">> \o World

====
